---- MODULE Spec2Model ----
(***************************************************************************)
(* State-machine model of staking-rewards.py: the `process` command        *)
(* (row selection, the CoinGecko stage with its cache, the Coinhall        *)
(* fallback stage, valuation of the rows, the simplified summary and the   *)
(* two output files), run repeatedly against one cache file; the           *)
(* `import-symbol` command; and levenshtein_dist_dp on its own.            *)
(*                                                                         *)
(* Conventions.  Python None / JSON null is the empty tuple; a value that  *)
(* may be None is a tuple of length 0 or 1 (Some(v) = <<v>>).  A Python    *)
(* dict is a TLA+ function; the nested dict d[symbol][date] is a function  *)
(* on price keys <<symbol, date_key>>.  Row indexes are 1-based.  A dict   *)
(* that is only iterated is the sequence of its keys in insertion order.   *)
(***************************************************************************)
EXTENDS Integers, Sequences, FiniteSets, TLC

\* ---------------------------------------------------------------- bounds
NumRows == 2
MaxRuns == 2
MaxPrice == 1
ThrottleRows == 10
MaxLen == 3
MaxCatalog == 2

\* ------------------------------------------------------ program constants
COIN_GECKO_REQUEST_CHUNKS == 9
COIN_GECKO_THROTTLE_TIME == 61
COINHALL_THROTTLE_TIME == 10
KEY_CLASSIFICATIONS == {"staked", "airdrop"}
YearFilter == 2022
HTTP_TOO_MANY_REQUESTS == 429

None == <<>>
Some(v) == <<v>>

\* The two registries as loaded by load_config_file (symbol -> provider id).
coingecko_symbols_to_id_configs == ("ADA" :> "cardano") @@ ("LUNA" :> "terra-luna")
coinhall_symbols_to_id_configs == ("LUNA" :> "terra1luna") @@ ("MINE" :> "terra178jy")

\* Default column names of the process command.
date_column == "timeExecuted"
valueColumn == "boughtQuantity"
\* The header row of the input file.
headers ==
    <<"classification", "timeExecuted", "boughtCurrency", "soldCurrency", "boughtQuantity">>

\* ----------------------------------------------------------------- inputs
Symbols == {"ADA", "LUNA", "MINE", "ZZZ"}
Days == {1, 2}
Prices == 0 .. MaxPrice
\* what market_data.current_price.usd of a 200 response can be
UsdOptions == {None} \cup {Some(p) : p \in Prices}
\* what the body of a 200 candles response can be: no candle, or one candle
CandleOptions == {<<>>} \cup {<<[high |-> p]>> : p \in Prices}
\* statuses for which raise_for_status raises
ErrorStatuses == {HTTP_TOO_MANY_REQUESTS, 500}

\* The strings levenshtein_dist_dp is applied to: sequences of characters.
Alphabet == {"a", "b"}
Strings == UNION {[1 .. n -> Alphabet] : n \in 0 .. MaxLen}

\* The import assistant.  A symbol is a sequence of characters; a catalog
\* entry is one element of the JSON list of the coins-list endpoint.
CatalogPool ==
    {[id |-> "a-coin",  symbol |-> <<"a">>,      name |-> "A Coin"],
     [id |-> "ab-coin", symbol |-> <<"a", "b">>, name |-> "AB Coin"],
     [id |-> "big-a",   symbol |-> <<"A">>,      name |-> "Big A"],
     [id |-> "b-coin",  symbol |-> <<"b">>,      name |-> "B Coin"]}
\* JSON lists of at most MaxCatalog different entries
Catalogs ==
    UNION {{d \in [1 .. n -> CatalogPool] : \A i, j \in 1 .. n : d[i] = d[j] => i = j} :
              n \in 0 .. MaxCatalog}
\* What requests.get gives: None when it raises (no connection), else a response.
CatalogResponses ==
    {None} \cup {Some([status |-> e, data |-> <<>>]) : e \in ErrorStatuses}
           \cup {Some([status |-> 200, data |-> d]) : d \in Catalogs}
\* --symbol
ImportSymbols == {<<"A">>, <<"A", "B">>, <<"c">>}
OldEntry == [id |-> "old-coin", symbol |-> <<"o">>, name |-> "Old Coin"]
OlderEntry == [id |-> "older-coin", symbol |-> <<"o">>, name |-> "Older Coin"]
\* The registry file as a JSON object: its members <<key, value>> in the
\* order of the text.  A member name may occur twice in a JSON text.
ConfigFiles(sym) ==
    {<<>>,
     <<(<<sym, OldEntry>>)>>,
     <<(<<(<<"z">>), OldEntry>>)>>,
     <<(<<(<<"z">>), OlderEntry>>), (<<sym, OldEntry>>)>>,
     <<(<<sym, OlderEntry>>), (<<(<<"z">>), OldEntry>>), (<<sym, OldEntry>>)>>}
\* what the user may type at a prompt
Answers == {"ls", "x", "y", "n"} \cup {ToString(n) : n \in (0 - 1) .. MaxCatalog + 1}

\* Ledgers of the resolution runs: every row in the target year, the
\* symbol column left at its default.
ProcessRowPool ==
    [classification : {"staked", "trade"}, year : {YearFilter}, day : Days,
     boughtCurrency : Symbols, soldCurrency : {""}]
\* Ledgers for row selection: every classification, both years, empty and
\* non-empty symbol cells in both currency columns.
SelectRowPool ==
    [classification : {"staked", "airdrop", "trade"},
     year : {YearFilter, YearFilter - 1}, day : {1},
     boughtCurrency : {"", "ADA"}, soldCurrency : {"", "ADA"}]

\* A parsed worksheet row (iter_worksheet): row i is executed at hour i of
\* its day and carries quantity i + 1, so rows of one day differ in time
\* of day and in quantity.
MakeRow(cells, i) ==
    [classification |-> cells.classification,
     timeExecuted   |-> [year |-> cells.year, day |-> cells.day, hour |-> i],
     boughtCurrency |-> cells.boughtCurrency,
     soldCurrency   |-> cells.soldCurrency,
     boughtQuantity |-> i + 1]

VARIABLES
    ledger,                     \* the input file: the rows as parsed
    symbolColumn,               \* --symbol-column
    cacheFile,                  \* the cache file: <<>> no file, <<cache>> its content
    run,                        \* number of the current invocation of process
    pc,                         \* position of the current invocation
    rows,                       \* the in-memory rows (mutated by process_rows)
    key_data_point_indexes,
    coingecko_cache,            \* the in-memory cache
    symbols_to_dates_to_rows,   \* keys left to fetch, in iteration order
    symbols_to_dates_to_costs,
    coingecko_requests_made,
    cursor,                     \* position of the running for loop
    missing_coingecko_coverage, \* row indexes, in insertion order
    missing_coinhall_coverage,  \* set of row indexes
    index_to_costs,
    simplified_rows,
    requests,                   \* history: the requests this invocation sent
    sleeps,                     \* history: the time.sleep calls of this invocation
    outputFile,                 \* --output-file: None no file, or Some(its content)
    simplifiedFile,             \* the -simplified file next to it, likewise
    outputs,                    \* history: the output_rows calls of this invocation
    usdOffered,                 \* the usd values CoinGecko may answer with
    cacheAtStart,               \* history: coingecko_cache as process_rows got it
    previous,                   \* history: result of the previous invocation if it returned
    levSource,                  \* levenshtein_dist_dp: its argument source
    levTarget,                  \* levenshtein_dist_dp: its argument target
    levDist,                    \* levenshtein_dist_dp: None, or what it returned
    importSymbol,               \* import-symbol: --symbol
    config_file,                \* import-symbol: the registry file (its content)
    coins_list,                 \* import-symbol: what the catalog request gives
    ipc,                        \* import-symbol: position of the assistant
    possible_option_ranks,
    chosen,
    current_config,
    prompt,                     \* the input() call answered last
    answer,                     \* what was typed there
    writes,                     \* history: number of save_config_file calls
    configFileAtStart,          \* history: the registry file before the assistant ran
    configAsLoaded              \* history: what load_config_file returned

vars == <<ledger, symbolColumn, cacheFile, run, pc, rows, key_data_point_indexes,
          coingecko_cache, symbols_to_dates_to_rows, symbols_to_dates_to_costs,
          coingecko_requests_made, cursor, missing_coingecko_coverage,
          missing_coinhall_coverage, index_to_costs, simplified_rows,
          requests, cacheAtStart, previous, sleeps, usdOffered,
          outputFile, simplifiedFile, outputs,
          levSource, levTarget, levDist, importSymbol, config_file, coins_list,
          ipc, possible_option_ranks, chosen, current_config, prompt, answer,
          writes, configFileAtStart, configAsLoaded>>

\* the variables of the process command
processVars == <<ledger, symbolColumn, cacheFile, run, pc, rows, key_data_point_indexes,
                 coingecko_cache, symbols_to_dates_to_rows, symbols_to_dates_to_costs,
                 coingecko_requests_made, cursor, missing_coingecko_coverage,
                 missing_coinhall_coverage, index_to_costs, simplified_rows,
                 requests, cacheAtStart, previous, sleeps, usdOffered,
                 outputFile, simplifiedFile, outputs>>
\* the output files of the process command
outputVars == <<outputFile, simplifiedFile, outputs>>
levenshteinVars == <<levSource, levTarget, levDist>>
\* the variables of the import-symbol command
importVars == <<importSymbol, config_file, coins_list, ipc, possible_option_ranks, chosen,
                current_config, prompt, answer, writes, configFileAtStart,
                configAsLoaded>>

\* what no step of the process command changes, besides its input
outside == <<usdOffered, levenshteinVars, importVars>>

Ended == {"returned", "CaughtError", "SystemExit", "AttributeError"}

\* ------------------------------------------------------------ pure helpers
\* row[date_column].strftime("%d-%m-%Y"): the calendar day, time of day dropped
strftime(t) == <<t.day, t.year>>

PriceKey(row) == <<row[symbolColumn], strftime(row[date_column])>>

\* Variant of write_coingecko_cache: the file is left as it was.
WriteNothing(data) == cacheFile
\* write_coingecko_cache: json.dump of the cache; the file content after it
write_coingecko_cache(data) == <<data>>

\* Variant of get_coingecko_cache: the file is not read.
LoadEmptyCache == <<>>
\* get_coingecko_cache: the loaded cache; a missing file is created empty
get_coingecko_cache == IF cacheFile = <<>> THEN <<>> ELSE cacheFile[1]

\* the cache file after get_coingecko_cache
CacheFileAfterLoad ==
    IF cacheFile = <<>> THEN write_coingecko_cache(<<>>) ELSE cacheFile

\* Variant of get_key_data_point_indexes: the classification is not tested.
SelectEveryClassification(rs, dateColumn, yearFilter) ==
    SelectSeq([i \in 1 .. Len(rs) |-> i],
              LAMBDA i : /\ rs[i][dateColumn].year = yearFilter
                         /\ rs[i]["boughtCurrency"] # "")
\* get_key_data_point_indexes
get_key_data_point_indexes(rs, dateColumn, yearFilter) ==
    SelectSeq([i \in 1 .. Len(rs) |-> i],
              LAMBDA i : /\ "classification" \in DOMAIN rs[i]
                         /\ rs[i]["classification"] \in KEY_CLASSIFICATIONS
                         /\ rs[i][dateColumn].year = yearFilter
                         /\ rs[i]["boughtCurrency"] # "")

Contains(seq, x) == \E j \in 1 .. Len(seq) : seq[j] = x

\* Variant of AddKey: one entry per row, not per key.
AddAlways(keys, k) == Append(keys, k)
\* lines 141-142 / 146-149: a dict key is inserted once
AddKey(keys, k) == IF Contains(keys, k) THEN keys ELSE Append(keys, k)

RECURSIVE SymbolOrder(_, _)
\* the symbols of symbols_to_dates_to_rows in insertion order
SymbolOrder(rs, idxs) ==
    IF idxs = <<>> THEN <<>>
    ELSE LET n == Len(idxs) IN
         AddKey(SymbolOrder(rs, SubSeq(idxs, 1, n - 1)), rs[idxs[n]][symbolColumn])

RECURSIVE DateOrder(_, _, _)
\* the date keys of symbols_to_dates_to_rows[symbol] in insertion order
DateOrder(rs, idxs, symbol) ==
    IF idxs = <<>> THEN <<>>
    ELSE LET n    == Len(idxs)
             rest == DateOrder(rs, SubSeq(idxs, 1, n - 1), symbol)
             row  == rs[idxs[n]]
         IN IF row[symbolColumn] = symbol
            THEN AddKey(rest, strftime(row[date_column]))
            ELSE rest

RECURSIVE KeysOfSymbols(_, _, _)
\* the nested iteration `for symbol in d: for date in d[symbol]`
KeysOfSymbols(rs, idxs, symbols) ==
    IF symbols = <<>> THEN <<>>
    ELSE LET dates == DateOrder(rs, idxs, Head(symbols)) IN
         [j \in 1 .. Len(dates) |-> <<Head(symbols), dates[j]>>]
            \o KeysOfSymbols(rs, idxs, Tail(symbols))

\* lines 134-149
BuildSymbolsToDatesToRows(rs, idxs) == KeysOfSymbols(rs, idxs, SymbolOrder(rs, idxs))

\* lines 156-162: the costs taken from the cache
CachedCosts(keys, cache) ==
    [k \in {keys[j] : j \in 1 .. Len(keys)} \cap DOMAIN cache |-> cache[k]]

\* Variant of RemoveCached: the cached entries stay among the keys to fetch.
KeepCached(keys, costs) == keys
\* lines 170-172: the cached entries are removed from the keys to fetch
RemoveCached(keys, costs) == SelectSeq(keys, LAMBDA k : k \notin DOMAIN costs)

\* Variant of get_coingecko_request_url: a URL for every symbol.
UrlForEverySymbol(symbol) == Some(<<"coins", symbol, "history">>)
\* get_coingecko_request_url / get_coinhall_request_url: None when unmapped
get_coingecko_request_url(symbol) ==
    IF symbol \in DOMAIN coingecko_symbols_to_id_configs
    THEN Some(<<"coins", coingecko_symbols_to_id_configs[symbol], "history">>)
    ELSE None
get_coinhall_request_url(symbol) ==
    IF symbol \in DOMAIN coinhall_symbols_to_id_configs
    THEN Some(<<"charts", "terra", "candles">>)
    ELSE None

\* Variant of IsThrottle: every failure is taken for a rate-limit rejection.
AnyErrorIsThrottle(status) == status \in ErrorStatuses
\* resp.status_code == 429
IsThrottle(status) == status = HTTP_TOO_MANY_REQUESTS

\* d[k] = v on a dict
Put(d, k, v) == (k :> v) @@ d

\* Variant of CachePut: a price of 0 is cached whatever the response.
CacheZero(cache, k, v) == Put(cache, k, Some(0))
\* Variant of CachePut: the cache keeps the latest result only.
CacheOnlyLatest(cache, k, v) == (k :> v)
\* Variant of CachePut: a result without a price is not cached.
CachePutUnlessNone(cache, k, v) == IF v = None THEN cache ELSE Put(cache, k, v)
\* lines 223-227
CachePut(cache, k, v) == Put(cache, k, v)

\* lines 231-237: the counter after a completed lookup
NextRequestsMade(made) ==
    IF made + 1 = COIN_GECKO_REQUEST_CHUNKS THEN 0 ELSE made + 1

\* a time.sleep(seconds) made when `after` requests had been sent
Sleep(seconds, after) == [seconds |-> seconds, after |-> after]

\* Variant of SleepAfterLookup: the long interval is never slept.
AlwaysShortSleep(made) == 1
\* lines 231-237: the seconds slept after a completed lookup
SleepAfterLookup(made) ==
    IF made + 1 = COIN_GECKO_REQUEST_CHUNKS THEN COIN_GECKO_THROTTLE_TIME ELSE 1

\* Variant of SleepOnThrottle: one second is slept before the retry.
ShortSleepOnThrottle(after) == <<Sleep(1, after)>>
\* Variant of SleepOnThrottle: the retry is sent at once.
NoSleepOnThrottle(after) == <<>>
\* line 202: the sleep between a 429 response and the retry
SleepOnThrottle(after) == <<Sleep(COIN_GECKO_THROTTLE_TIME, after)>>

\* line 380: the same in make_coinhall_api_request
SleepOnCoinhallThrottle(after) == <<Sleep(COINHALL_THROTTLE_TIME, after)>>

\* line 283: the sleep after a Coinhall call, when line 278 did not raise
SleepAfterCoinhall(resp, after) ==
    IF resp = None THEN <<>> ELSE <<Sleep(COINHALL_THROTTLE_TIME, after)>>

\* min(...) of line 635
Min(S) == CHOOSE x \in S : \A y \in S : x <= y

\* Variant of levenshtein_dist_dp: column 0 of the matrix is all zeros.
LevenshteinZeroColumn(source, target) ==
    LET matrix[i \in 0 .. Len(source), j \in 0 .. Len(target)] ==
            IF i = 0 THEN j
            ELSE IF j = 0 THEN 0
            ELSE IF source[i] = target[j] THEN matrix[i - 1, j - 1]
            ELSE 1 + Min({matrix[i, j - 1], matrix[i - 1, j], matrix[i - 1, j - 1]})
    IN  matrix[Len(source), Len(target)]
\* Variant of levenshtein_dist_dp: the diagonal neighbour is left out of the minimum.
LevenshteinNoSubstitution(source, target) ==
    LET matrix[i \in 0 .. Len(source), j \in 0 .. Len(target)] ==
            IF i = 0 THEN j
            ELSE IF j = 0 THEN i
            ELSE IF source[i] = target[j] THEN matrix[i - 1, j - 1]
            ELSE 1 + Min({matrix[i, j - 1], matrix[i - 1, j]})
    IN  matrix[Len(source), Len(target)]
\* levenshtein_dist_dp, lines 619-639: matrix[i][j] as the loops fill it
\* (source[i-1] of the code is source[i] here, sequences being 1-based)
levenshtein_dist_dp(source, target) ==
    LET matrix[i \in 0 .. Len(source), j \in 0 .. Len(target)] ==
            IF i = 0 THEN j
            ELSE IF j = 0 THEN i
            ELSE IF source[i] = target[j] THEN matrix[i - 1, j - 1]
            ELSE 1 + Min({matrix[i, j - 1], matrix[i - 1, j], matrix[i - 1, j - 1]})
    IN  matrix[Len(source), Len(target)]

\* ---- import-symbol: strings, the catalog filter and the ranking
\* str.lower
LowerChar(c) == CASE c = "A" -> "a" [] c = "B" -> "b" [] OTHER -> c
Lower(s) == [i \in 1 .. Len(s) |-> LowerChar(s[i])]

\* needle in hay, for two strings
IsSubstring(needle, hay) ==
    \E i \in 0 .. Len(hay) - Len(needle) : SubSeq(hay, i + 1, i + Len(needle)) = needle

\* line 517
Matches(symbol, symbol_config) ==
    \/ IsSubstring(symbol, symbol_config.symbol)
    \/ IsSubstring(Lower(symbol), symbol_config.symbol)

\* lines 514-518
PossibleOptions(data, symbol) == SelectSeq(data, LAMBDA c : Matches(symbol, c))

\* lines 530-533: (possible_option, dist) for every option, in catalog order
Rank(symbol, options) ==
    [i \in 1 .. Len(options) |->
        <<options[i], levenshtein_dist_dp(Lower(symbol), options[i].symbol)>>]

\* sorted(..., key=dist), line 536: ascending, equal distances keep their order
InsertRanked(ranks, x) ==
    LET n == Cardinality({i \in 1 .. Len(ranks) : ranks[i][2] <= x[2]})
    IN  SubSeq(ranks, 1, n) \o <<x>> \o SubSeq(ranks, n + 1, Len(ranks))
\* Variant of Sorted: the ranks stay in catalog order.
Unsorted(ranks) == ranks
RECURSIVE Sorted(_)
Sorted(ranks) ==
    IF ranks = <<>> THEN <<>>
    ELSE InsertRanked(Sorted(SubSeq(ranks, 1, Len(ranks) - 1)), ranks[Len(ranks)])

\* int(answer): None stands for ValueError
ParseInt(a) ==
    IF \E n \in (0 - 1) .. MaxCatalog + 1 : ToString(n) = a
    THEN Some(CHOOSE n \in (0 - 1) .. MaxCatalog + 1 : ToString(n) = a)
    ELSE None

\* Variant of RaisesHTTPError: raise_for_status never raises.
NeverRaises(status) == FALSE
\* resp.raise_for_status(), line 505
RaisesHTTPError(status) == status # 200

\* ---- import-symbol: the registry.  A dict is its keys in insertion
\* order and the value at each key.
EmptyDict == [keys |-> <<>>, at |-> <<>>]
HasKey(d, k) == k \in DOMAIN d.at
\* d[k] = v
SetItem(d, k, v) ==
    [keys |-> IF HasKey(d, k) THEN d.keys ELSE Append(d.keys, k),
     at   |-> Put(d.at, k, v)]

\* json.load, lines 95-96: a repeated member name keeps its last value
RECURSIVE load_config_file(_)
load_config_file(file) ==
    IF file = <<>> THEN EmptyDict
    ELSE SetItem(load_config_file(SubSeq(file, 1, Len(file) - 1)),
                 file[Len(file)][1], file[Len(file)][2])

\* json.dump, lines 98-99: the text that replaces the file
save_config_file(config_value) ==
    [i \in 1 .. Len(config_value.keys) |->
        <<config_value.keys[i], config_value.at[config_value.keys[i]]>>]

\* Variant of AsksBeforeOverwrite: an existing entry is replaced unasked.
OverwritesUnasked(config, symbol) == FALSE
\* line 585
AsksBeforeOverwrite(config, symbol) == HasKey(config, symbol)

Request(provider, key, index, status, body) ==
    [provider |-> provider, key |-> key, index |-> index,
     status |-> status, body |-> body]

\* ------------------------------------------------------------------- Init
\* the process command is started for the first time: no cache file yet
InitProcess ==
    /\ cacheFile = <<>>
    /\ run = 1
    /\ pc = "start"
    /\ rows = <<>>
    /\ key_data_point_indexes = <<>>
    /\ coingecko_cache = <<>>
    /\ symbols_to_dates_to_rows = <<>>
    /\ symbols_to_dates_to_costs = <<>>
    /\ coingecko_requests_made = 0
    /\ cursor = 1
    /\ missing_coingecko_coverage = <<>>
    /\ missing_coinhall_coverage = {}
    /\ index_to_costs = <<>>
    /\ simplified_rows = <<>>
    /\ requests = <<>>
    /\ cacheAtStart = <<>>
    /\ previous = <<>>
    /\ sleeps = <<>>
    /\ outputFile = None
    /\ simplifiedFile = None
    /\ outputs = 0

\* import-symbol is not run
IdleImport ==
    /\ importSymbol = <<>>
    /\ config_file = <<>>
    /\ coins_list = None
    /\ ipc = "idle"
    /\ possible_option_ranks = <<>>
    /\ chosen = None
    /\ current_config = None
    /\ prompt = "none"
    /\ answer = ""
    /\ writes = 0
    /\ configFileAtStart = <<>>
    /\ configAsLoaded = None

\* levenshtein_dist_dp has not been called
IdleLevenshtein ==
    /\ levSource = <<>>
    /\ levTarget = <<>>
    /\ levDist = None

InitWith(pool, columns) ==
    /\ \E cells \in [1 .. NumRows -> pool] :
          ledger = [i \in 1 .. NumRows |-> MakeRow(cells[i], i)]
    /\ symbolColumn \in columns
    /\ usdOffered = UsdOptions
    /\ InitProcess
    /\ IdleLevenshtein
    /\ IdleImport

Init == InitWith(ProcessRowPool, {"boughtCurrency"})

\* A ledger long enough for the request counter to reach
\* COIN_GECKO_REQUEST_CHUNKS: one staked row per day, one price on offer; every
\* row is of ADA except the last one, which is of any symbol but LUNA.
InitThrottle ==
    /\ \E last \in Symbols \ {"LUNA"} :
          ledger = [i \in 1 .. ThrottleRows |->
                      MakeRow([classification |-> "staked", year |-> YearFilter, day |-> i,
                               boughtCurrency |-> IF i = ThrottleRows THEN last ELSE "ADA",
                               soldCurrency |-> ""], i)]
    /\ symbolColumn = "boughtCurrency"
    /\ usdOffered = {Some(MaxPrice)}
    /\ InitProcess
    /\ IdleLevenshtein
    /\ IdleImport

\* the process command is not run: no ledger, nothing on offer
IdleProcess ==
    /\ ledger = <<>>
    /\ symbolColumn = "boughtCurrency"
    /\ usdOffered = {}
    /\ InitProcess

\* levenshtein_dist_dp is about to be called on any two strings
InitLevenshtein ==
    /\ levSource \in Strings
    /\ levTarget \in Strings
    /\ levDist = None
    /\ IdleProcess
    /\ IdleImport

\* import_symbol, lines 604-614: the registry file exists (line 78), the
\* catalog request is about to be sent
InitImport ==
    /\ importSymbol \in ImportSymbols
    /\ config_file \in ConfigFiles(importSymbol)
    /\ configFileAtStart = config_file
    /\ coins_list \in CatalogResponses
    /\ ipc = "start"
    /\ possible_option_ranks = <<>>
    /\ chosen = None
    /\ current_config = None
    /\ prompt = "none"
    /\ answer = ""
    /\ writes = 0
    /\ configAsLoaded = None
    /\ IdleProcess
    /\ IdleLevenshtein

InitSelect == InitWith(SelectRowPool, {"boughtCurrency", "soldCurrency"})

\* ---------------------------------------------------------------- actions
\* process, lines 443-491: the output file is absent or may be overwritten,
\* the cache is loaded, the input parsed, the rows selected
SelectRows ==
    /\ pc = "start"
    /\ coingecko_cache' = get_coingecko_cache
    /\ cacheFile' = CacheFileAfterLoad
    /\ cacheAtStart' = get_coingecko_cache
    /\ rows' = ledger
    /\ key_data_point_indexes' = get_key_data_point_indexes(ledger, date_column, YearFilter)
    /\ pc' = "selected"
    /\ UNCHANGED <<ledger, symbolColumn, run, symbols_to_dates_to_rows,
                   symbols_to_dates_to_costs, coingecko_requests_made, cursor,
                   missing_coingecko_coverage, missing_coinhall_coverage,
                   index_to_costs, simplified_rows, requests, previous, sleeps>>
    /\ UNCHANGED outputVars
    /\ UNCHANGED outside

\* validate_process_args, lines 66-69: the output file exists and the
\* answer to the prompt is not Y; CaughtError("Exiting...") is raised before
\* anything is read
DeclineOverwrite ==
    /\ pc = "start"
    /\ outputFile # None
    /\ pc' = "Exiting"
    /\ UNCHANGED <<ledger, symbolColumn, cacheFile, run, rows, key_data_point_indexes,
                   coingecko_cache, symbols_to_dates_to_rows, symbols_to_dates_to_costs,
                   coingecko_requests_made, cursor, missing_coingecko_coverage,
                   missing_coinhall_coverage, index_to_costs, simplified_rows,
                   requests, cacheAtStart, previous, sleeps>>
    /\ UNCHANGED outputVars
    /\ UNCHANGED outside

\* process_rows, lines 132-179
BuildMaps ==
    /\ pc = "selected"
    /\ LET all   == BuildSymbolsToDatesToRows(rows, key_data_point_indexes)
           costs == CachedCosts(all, coingecko_cache)
       IN /\ symbols_to_dates_to_costs' = costs
          /\ symbols_to_dates_to_rows' = RemoveCached(all, costs)
    /\ coingecko_requests_made' = 0
    /\ cursor' = 1
    /\ pc' = "coingecko"
    /\ UNCHANGED <<ledger, symbolColumn, cacheFile, run, rows, key_data_point_indexes,
                   coingecko_cache, missing_coingecko_coverage,
                   missing_coinhall_coverage, index_to_costs, simplified_rows,
                   requests, cacheAtStart, previous, sleeps>>
    /\ UNCHANGED outputVars
    /\ UNCHANGED outside

\* The key the CoinGecko loop (lines 180-239) is at
CurrentKey == symbols_to_dates_to_rows[cursor]

InCoinGeckoLoop ==
    /\ pc = "coingecko"
    /\ cursor <= Len(symbols_to_dates_to_rows)

CoinGeckoRequest(status, body) == Request("coingecko", CurrentKey, 0, status, body)

\* lines 220-237: the lookup of CurrentKey ended with a 200 response carrying usd
CompleteLookup(usd, made) ==
    LET cache == CachePut(coingecko_cache, CurrentKey, usd) IN
    /\ symbols_to_dates_to_costs' = Put(symbols_to_dates_to_costs, CurrentKey, usd)
    /\ coingecko_cache' = cache
    /\ cacheFile' = write_coingecko_cache(cache)
    /\ coingecko_requests_made' = NextRequestsMade(made)
    /\ cursor' = cursor + 1
    /\ pc' = pc

\* Variant of RaiseCaughtError: the loop stays at the failed key and asks again.
AskAgain(c) == [pc |-> "coingecko", cursor |-> c]
\* Variant of RaiseCaughtError: the failed key is skipped, the loop goes on.
SkipFailedKey(c) == [pc |-> "coingecko", cursor |-> c + 1]
\* raise CaughtError, lines 212 and 216: the invocation ends where it is
RaiseCaughtError(c) == [pc |-> "CaughtError", cursor |-> c]

\* lines 210-212, 214-216: the cache is written and CaughtError raised
AbortLookup ==
    /\ symbols_to_dates_to_costs' = Put(symbols_to_dates_to_costs, CurrentKey, None)
    /\ cacheFile' = write_coingecko_cache(coingecko_cache)
    /\ pc' = RaiseCaughtError(cursor).pc
    /\ cursor' = RaiseCaughtError(cursor).cursor
    /\ UNCHANGED coingecko_cache

UnchangedByCoinGecko ==
    UNCHANGED <<ledger, symbolColumn, run, rows, key_data_point_indexes,
                symbols_to_dates_to_rows, missing_coingecko_coverage,
                missing_coinhall_coverage, index_to_costs, simplified_rows,
                cacheAtStart, previous>>
    /\ UNCHANGED outputVars
    /\ UNCHANGED outside

\* lines 192-193, 238-239: the symbol has no CoinGecko id, nothing is requested
CoinGeckoUnsupported ==
    /\ InCoinGeckoLoop
    /\ get_coingecko_request_url(CurrentKey[1]) = None
    /\ symbols_to_dates_to_costs' = Put(symbols_to_dates_to_costs, CurrentKey, None)
    /\ cursor' = cursor + 1
    /\ UNCHANGED <<cacheFile, coingecko_cache, coingecko_requests_made, pc, requests,
                   sleeps>>
    /\ UnchangedByCoinGecko

\* lines 194-198, 220-237: the request is answered 200
CoinGeckoOk ==
    /\ InCoinGeckoLoop
    /\ get_coingecko_request_url(CurrentKey[1]) # None
    /\ \E usd \in usdOffered :
          /\ requests' = Append(requests, CoinGeckoRequest(200, usd))
          /\ CompleteLookup(usd, coingecko_requests_made)
    /\ sleeps' = Append(sleeps, Sleep(SleepAfterLookup(coingecko_requests_made),
                                      Len(requests) + 1))
    /\ UnchangedByCoinGecko

\* lines 199-208, 220-237: answered 429, the one retry is answered 200
CoinGeckoRetryOk ==
    /\ InCoinGeckoLoop
    /\ get_coingecko_request_url(CurrentKey[1]) # None
    /\ \E status \in ErrorStatuses, usd \in usdOffered :
          /\ IsThrottle(status)
          /\ requests' = requests \o <<CoinGeckoRequest(status, None),
                                       CoinGeckoRequest(200, usd)>>
          /\ CompleteLookup(usd, 1)
    /\ sleeps' = Append(sleeps \o SleepOnThrottle(Len(requests) + 1),
                        Sleep(SleepAfterLookup(1), Len(requests) + 2))
    /\ UnchangedByCoinGecko

\* lines 199-212: answered 429, the one retry fails too
CoinGeckoRetryFail ==
    /\ InCoinGeckoLoop
    /\ get_coingecko_request_url(CurrentKey[1]) # None
    /\ \E status \in ErrorStatuses, again \in ErrorStatuses :
          /\ IsThrottle(status)
          /\ requests' = requests \o <<CoinGeckoRequest(status, None),
                                       CoinGeckoRequest(again, None)>>
    /\ sleeps' = sleeps \o SleepOnThrottle(Len(requests) + 1)
    /\ coingecko_requests_made' = 1
    /\ AbortLookup
    /\ UnchangedByCoinGecko

\* lines 199-200, 213-216: the request fails with another status
CoinGeckoFail ==
    /\ InCoinGeckoLoop
    /\ get_coingecko_request_url(CurrentKey[1]) # None
    /\ \E status \in ErrorStatuses :
          /\ ~IsThrottle(status)
          /\ requests' = Append(requests, CoinGeckoRequest(status, None))
    /\ UNCHANGED <<coingecko_requests_made, sleeps>>
    /\ AbortLookup
    /\ UnchangedByCoinGecko

\* Variant of MultiplyRaises: the multiplication raises for every row.
AlwaysRaises(costs, row) == TRUE
\* Variant of MultiplyRaises: a cost of None counts as 0.
NoneIsZero(costs, row) == FALSE
\* the cost of the row's key times row[valueColumn] raises (bare except,
\* lines 252-255): the cost is None
MultiplyRaises(costs, row) ==
    \/ PriceKey(row) \notin DOMAIN costs
    \/ costs[PriceKey(row)] = None

\* the cost of the row's key as a number
CostOf(costs, row) ==
    IF PriceKey(row) \in DOMAIN costs /\ costs[PriceKey(row)] # None
    THEN costs[PriceKey(row)][1] ELSE 0

\* Variant of UsdValue: the quantity is left out.
PriceOnly(price, row) == price
\* price * row[valueColumn]
UsdValue(price, row) == price * row[valueColumn]

\* Variant of SetUsdValue: the quantity of the row is zeroed as well.
SetUsdValueAndZeroQuantity(row, v) == Put(Put(row, "usdValue", v), valueColumn, 0)
\* row["usdValue"] = v
SetUsdValue(row, v) == Put(row, "usdValue", v)

\* lines 241-257: the cache is written, the selected rows are valued
FinishCoinGecko ==
    /\ pc = "coingecko"
    /\ cursor > Len(symbols_to_dates_to_rows)
    /\ cacheFile' = write_coingecko_cache(coingecko_cache)
    /\ LET selected == {key_data_point_indexes[j] : j \in 1 .. Len(key_data_point_indexes)}
       IN /\ rows' = [i \in 1 .. Len(rows) |->
                        IF i \in selected /\ ~MultiplyRaises(symbols_to_dates_to_costs, rows[i])
                        THEN SetUsdValue(rows[i],
                                 UsdValue(CostOf(symbols_to_dates_to_costs, rows[i]), rows[i]))
                        ELSE rows[i]]
          /\ missing_coingecko_coverage' =
                SelectSeq(key_data_point_indexes,
                          LAMBDA i : MultiplyRaises(symbols_to_dates_to_costs, rows[i]))
    /\ missing_coinhall_coverage' = {}
    /\ index_to_costs' = <<>>
    /\ cursor' = 1
    /\ pc' = "coinhall"
    /\ UNCHANGED <<ledger, symbolColumn, run, key_data_point_indexes, coingecko_cache,
                   symbols_to_dates_to_rows, symbols_to_dates_to_costs,
                   coingecko_requests_made, simplified_rows, requests,
                   cacheAtStart, previous, sleeps>>
    /\ UNCHANGED outputVars
    /\ UNCHANGED outside

\* The row index the Coinhall loop (lines 269-286) is at
CurrentIndex == missing_coingecko_coverage[cursor]

InCoinhallLoop ==
    /\ pc = "coinhall"
    /\ cursor <= Len(missing_coingecko_coverage)

CoinhallRequest(status, body) ==
    Request("coinhall", PriceKey(rows[CurrentIndex]), CurrentIndex, status, body)

\* make_coinhall_api_request has no return statement: whatever the
\* response, the caller gets None
make_coinhall_api_request(resp) == None

UnchangedByCoinhall ==
    UNCHANGED <<ledger, symbolColumn, cacheFile, run, rows, key_data_point_indexes,
                coingecko_cache, symbols_to_dates_to_rows, symbols_to_dates_to_costs,
                coingecko_requests_made, missing_coingecko_coverage,
                simplified_rows, cacheAtStart, previous>>
    /\ UNCHANGED outputVars
    /\ UNCHANGED outside

\* lines 278-283 on the value make_coinhall_api_request returned
UseCoinhallResponse(resp) ==
    IF resp = None
    THEN \* resp.json() on None raises AttributeError
         /\ pc' = "AttributeError"
         /\ UNCHANGED <<cursor, index_to_costs, missing_coinhall_coverage>>
    ELSE LET data == resp[1].body IN
         /\ IF Len(data) > 0
            THEN /\ index_to_costs' = Put(index_to_costs, CurrentIndex, data[1])
                 /\ UNCHANGED missing_coinhall_coverage
            ELSE /\ missing_coinhall_coverage' = missing_coinhall_coverage \cup {CurrentIndex}
                 /\ UNCHANGED index_to_costs
         /\ cursor' = cursor + 1
         /\ pc' = pc

\* lines 273-275, 284-286: the symbol has no Coinhall id
CoinhallUnsupported ==
    /\ InCoinhallLoop
    /\ get_coinhall_request_url(rows[CurrentIndex][symbolColumn]) = None
    /\ missing_coinhall_coverage' = missing_coinhall_coverage \cup {CurrentIndex}
    /\ cursor' = cursor + 1
    /\ UNCHANGED <<pc, index_to_costs, requests, sleeps>>
    /\ UnchangedByCoinhall

\* lines 276-283, 374-376: the request is answered 200
CoinhallOk ==
    /\ InCoinhallLoop
    /\ get_coinhall_request_url(rows[CurrentIndex][symbolColumn]) # None
    /\ \E candles \in CandleOptions :
          LET resp == CoinhallRequest(200, candles) IN
          /\ requests' = Append(requests, resp)
          /\ UseCoinhallResponse(make_coinhall_api_request(resp))
          /\ sleeps' = sleeps \o SleepAfterCoinhall(make_coinhall_api_request(resp),
                                                   Len(requests) + 1)
    /\ UnchangedByCoinhall

\* lines 377-385: answered 429, the one retry is answered 200
CoinhallRetryOk ==
    /\ InCoinhallLoop
    /\ get_coinhall_request_url(rows[CurrentIndex][symbolColumn]) # None
    /\ \E status \in ErrorStatuses, candles \in CandleOptions :
          LET resp == CoinhallRequest(200, candles) IN
          /\ IsThrottle(status)
          /\ requests' = requests \o <<CoinhallRequest(status, None), resp>>
          /\ UseCoinhallResponse(make_coinhall_api_request(resp))
          /\ sleeps' = sleeps \o SleepOnCoinhallThrottle(Len(requests) + 1)
                          \o SleepAfterCoinhall(make_coinhall_api_request(resp),
                                                Len(requests) + 2)
    /\ UnchangedByCoinhall

\* lines 377-388: answered 429, the one retry fails: sys.exit(1)
CoinhallRetryFail ==
    /\ InCoinhallLoop
    /\ get_coinhall_request_url(rows[CurrentIndex][symbolColumn]) # None
    /\ \E status \in ErrorStatuses, again \in ErrorStatuses :
          /\ IsThrottle(status)
          /\ requests' = requests \o <<CoinhallRequest(status, None),
                                       CoinhallRequest(again, None)>>
    /\ sleeps' = sleeps \o SleepOnCoinhallThrottle(Len(requests) + 1)
    /\ pc' = "SystemExit"
    /\ UNCHANGED <<cursor, index_to_costs, missing_coinhall_coverage>>
    /\ UnchangedByCoinhall

\* lines 389-391: the request fails with another status: sys.exit(1)
CoinhallFail ==
    /\ InCoinhallLoop
    /\ get_coinhall_request_url(rows[CurrentIndex][symbolColumn]) # None
    /\ \E status \in ErrorStatuses :
          /\ ~IsThrottle(status)
          /\ requests' = Append(requests, CoinhallRequest(status, None))
    /\ UNCHANGED sleeps
    /\ pc' = "SystemExit"
    /\ UNCHANGED <<cursor, index_to_costs, missing_coinhall_coverage>>
    /\ UnchangedByCoinhall

\* lines 311-316: the simplified row of the selected row `row` at `index`
Comment(index, missing) == IF index \in missing THEN "Not covered, fixme" ELSE ""

SimplifiedRow(row, index, missing) ==
    [header \in {date_column, symbolColumn, valueColumn, "usdValue"} |-> row[header]]
        @@ ("comment" :> Comment(index, missing))

\* lines 289-299: the Coinhall prices and the zero of the uncovered rows
ValuedRow(row, index) ==
    IF index \in missing_coinhall_coverage THEN SetUsdValue(row, 0)
    ELSE IF index \in DOMAIN index_to_costs
         THEN SetUsdValue(row, UsdValue(index_to_costs[index].high, row))
         ELSE row

\* output_rows with the default format csv, lines 427-440: the header line,
\* then one line per row with the row's value under each header, an empty
\* cell (None here) under a header the row lacks
output_rows(hs, rs) ==
    [headers |-> hs,
     rows    |-> [i \in 1 .. Len(rs) |->
                    [c \in 1 .. Len(hs) |->
                        IF hs[c] \in DOMAIN rs[i] THEN Some(rs[i][hs[c]]) ELSE None]]]

\* lines 492, 495: the headers of the simplified file
simplified_rows_headers == <<date_column, symbolColumn, valueColumn, "usdValue", "comment">>

\* lines 288-320: the loops are over, the rows get their last values and
\* the simplified rows are built; process, lines 494-497: process_rows has
\* returned and the two files are written
Finish ==
    /\ pc = "coinhall"
    /\ cursor > Len(missing_coingecko_coverage)
    /\ LET valued == [i \in 1 .. Len(rows) |-> ValuedRow(rows[i], i)]
           simplified ==
               [j \in 1 .. Len(key_data_point_indexes) |->
                   SimplifiedRow(valued[key_data_point_indexes[j]],
                                 key_data_point_indexes[j], missing_coinhall_coverage)]
       IN /\ rows' = valued
          /\ simplified_rows' = simplified
          /\ outputFile' = Some(output_rows(Append(headers, "usdValue"), valued))
          /\ simplifiedFile' = Some(output_rows(simplified_rows_headers, simplified))
          /\ outputs' = outputs + 2
    /\ pc' = "returned"
    /\ UNCHANGED <<ledger, symbolColumn, cacheFile, run, key_data_point_indexes,
                   coingecko_cache, symbols_to_dates_to_rows, symbols_to_dates_to_costs,
                   coingecko_requests_made, cursor, missing_coingecko_coverage,
                   missing_coinhall_coverage, index_to_costs, requests,
                   cacheAtStart, previous, sleeps>>
    /\ UNCHANGED outside

\* what a later invocation is compared with: the cache file, the rows and
\* the simplified rows of an invocation that returned
Outcome == [cache |-> cacheFile, rows |-> rows, simplified |-> simplified_rows]

\* the command is run again on the same input, with the cache file as it is
NextRun ==
    /\ pc \in Ended \cup {"Exiting"}
    /\ run < MaxRuns
    /\ run' = run + 1
    /\ previous' = IF pc = "returned" THEN <<Outcome>> ELSE <<>>
    /\ pc' = "start"
    /\ rows' = <<>>
    /\ key_data_point_indexes' = <<>>
    /\ coingecko_cache' = <<>>
    /\ symbols_to_dates_to_rows' = <<>>
    /\ symbols_to_dates_to_costs' = <<>>
    /\ coingecko_requests_made' = 0
    /\ cursor' = 1
    /\ missing_coingecko_coverage' = <<>>
    /\ missing_coinhall_coverage' = {}
    /\ index_to_costs' = <<>>
    /\ simplified_rows' = <<>>
    /\ requests' = <<>>
    /\ cacheAtStart' = <<>>
    /\ sleeps' = <<>>
    /\ outputs' = 0
    /\ UNCHANGED <<ledger, symbolColumn, cacheFile, outputFile, simplifiedFile>>
    /\ UNCHANGED outside

Next ==
    \/ DeclineOverwrite
    \/ SelectRows
    \/ BuildMaps
    \/ CoinGeckoUnsupported
    \/ CoinGeckoOk
    \/ CoinGeckoRetryOk
    \/ CoinGeckoRetryFail
    \/ CoinGeckoFail
    \/ FinishCoinGecko
    \/ CoinhallUnsupported
    \/ CoinhallOk
    \/ CoinhallRetryOk
    \/ CoinhallRetryFail
    \/ CoinhallFail
    \/ Finish
    \/ NextRun

Spec == Init /\ [][Next]_vars

\* The process command when it keeps running: a step of the current
\* invocation that can be taken is taken (every request is answered, every
\* prompt is answered); nothing obliges the user to invoke it again.
StepOfInvocation == Next /\ run' = run
SpecLive == Init /\ [][Next]_vars /\ WF_vars(StepOfInvocation)

\* The process command on the long ledger
SpecThrottle == InitThrottle /\ [][Next]_vars

\* Row selection alone, over ledgers of every classification and year and
\* with either currency column configured as the symbol column
SpecSelect == InitSelect /\ [][SelectRows]_vars

\* levenshtein_dist_dp, lines 619-639: the call returns
Levenshtein ==
    /\ levDist = None
    /\ levDist' = Some(levenshtein_dist_dp(levSource, levTarget))
    /\ UNCHANGED <<processVars, importVars, levSource, levTarget>>

\* levenshtein_dist_dp on its own, on every pair of strings.
SpecLevenshtein == InitLevenshtein /\ [][Levenshtein]_vars

\* ---- import_symbol_coingecko_worker, one action per stretch of code between
\* two input() calls
UnchangedByImport ==
    UNCHANGED <<processVars, levenshteinVars, importSymbol, coins_list, configFileAtStart>>

\* what an action that ends the assistant before any prompt leaves alone
NothingChosen ==
    UNCHANGED <<config_file, possible_option_ranks, chosen, current_config, prompt, answer,
                writes, configAsLoaded>>

\* line 503: requests.get raises, nothing catches it
CatalogUnreachable ==
    /\ ipc = "start"
    /\ coins_list = None
    /\ ipc' = "ConnectionError"
    /\ NothingChosen
    /\ UnchangedByImport

\* lines 504-508
CatalogFails ==
    /\ ipc = "start"
    /\ coins_list # None
    /\ RaisesHTTPError(coins_list[1].status)
    /\ ipc' = "CaughtError"
    /\ NothingChosen
    /\ UnchangedByImport

\* lines 512-524
NoOptionFound ==
    /\ ipc = "start"
    /\ coins_list # None
    /\ ~RaisesHTTPError(coins_list[1].status)
    /\ PossibleOptions(coins_list[1].data, importSymbol) = <<>>
    /\ ipc' = "returned"
    /\ NothingChosen
    /\ UnchangedByImport

\* lines 512-543: the options are ranked and shown
RankOptions ==
    /\ ipc = "start"
    /\ coins_list # None
    /\ ~RaisesHTTPError(coins_list[1].status)
    /\ PossibleOptions(coins_list[1].data, importSymbol) # <<>>
    /\ possible_option_ranks' =
           Sorted(Rank(importSymbol, PossibleOptions(coins_list[1].data, importSymbol)))
    /\ ipc' = "choose"
    /\ UNCHANGED <<config_file, chosen, current_config, prompt, answer, writes,
                   configAsLoaded>>
    /\ UnchangedByImport

\* the input() calls of lines 549 ("choose") and 561, 564 ("rechoose")
Choosing == ipc \in {"choose", "rechoose"}

Answered(a) ==
    /\ prompt' = ipc
    /\ answer' = a

\* lines 551-552: ls shows the list again
ShowAgain ==
    /\ ipc = "choose"
    /\ Answered("ls")
    /\ UNCHANGED <<ipc, config_file, possible_option_ranks, chosen, current_config, writes,
                   configAsLoaded>>
    /\ UnchangedByImport

\* lines 556, 560-562: int(answer) raises ValueError
NotAnInteger(a) ==
    /\ Choosing
    /\ ~(ipc = "choose" /\ a = "ls")
    /\ ParseInt(a) = None
    /\ Answered(a)
    /\ ipc' = "rechoose"
    /\ UNCHANGED <<config_file, possible_option_ranks, chosen, current_config, writes,
                   configAsLoaded>>
    /\ UnchangedByImport

\* lines 557-559: IndexError, raised by hand below 1 and by the list above its length
RaisesIndexError(val) == val - 1 < 0 \/ val - 1 >= Len(possible_option_ranks)

\* lines 556-559, 563-564
NotInList(a) ==
    /\ Choosing
    /\ ParseInt(a) # None
    /\ RaisesIndexError(ParseInt(a)[1])
    /\ Answered(a)
    /\ ipc' = "rechoose"
    /\ UNCHANGED <<config_file, possible_option_ranks, chosen, current_config, writes,
                   configAsLoaded>>
    /\ UnchangedByImport

\* lines 556-560, 566-567
OptionChosen(a) ==
    /\ Choosing
    /\ ParseInt(a) # None
    /\ ~RaisesIndexError(ParseInt(a)[1])
    /\ Answered(a)
    /\ chosen' = Some(possible_option_ranks[ParseInt(a)[1]][1])
    /\ ipc' = "confirm"
    /\ UNCHANGED <<config_file, possible_option_ranks, current_config, writes,
                   configAsLoaded>>
    /\ UnchangedByImport

\* lines 570, 577-578
ConfirmOther(a) ==
    /\ ipc = "confirm"
    /\ a \notin {"y", "n"}
    /\ Answered(a)
    /\ UNCHANGED <<ipc, config_file, possible_option_ranks, chosen, current_config, writes,
                   configAsLoaded>>
    /\ UnchangedByImport

\* lines 575-576, 579: back to the list
ConfirmNo ==
    /\ ipc = "confirm"
    /\ Answered("n")
    /\ ipc' = "choose"
    /\ UNCHANGED <<config_file, possible_option_ranks, chosen, current_config, writes,
                   configAsLoaded>>
    /\ UnchangedByImport

\* lines 598-601
Save(config) ==
    /\ current_config' = Some(SetItem(config, importSymbol, chosen[1]))
    /\ config_file' = save_config_file(SetItem(config, importSymbol, chosen[1]))
    /\ writes' = writes + 1
    /\ ipc' = "returned"

\* lines 571-573, 580-601: the registry has no entry for the symbol
ConfirmYesSave ==
    /\ ipc = "confirm"
    /\ Answered("y")
    /\ configAsLoaded' = Some(load_config_file(config_file))
    /\ ~AsksBeforeOverwrite(load_config_file(config_file), importSymbol)
    /\ Save(load_config_file(config_file))
    /\ UNCHANGED <<possible_option_ranks, chosen>>
    /\ UnchangedByImport

\* lines 571-573, 580-588: the registry has an entry for the symbol
ConfirmYesAsk ==
    /\ ipc = "confirm"
    /\ Answered("y")
    /\ configAsLoaded' = Some(load_config_file(config_file))
    /\ AsksBeforeOverwrite(load_config_file(config_file), importSymbol)
    /\ current_config' = Some(load_config_file(config_file))
    /\ ipc' = "overwrite"
    /\ UNCHANGED <<config_file, possible_option_ranks, chosen, writes>>
    /\ UnchangedByImport

\* lines 587-590: neither y nor n, asked again
OverwriteOther(a) ==
    /\ ipc = "overwrite"
    /\ a \notin {"y", "n"}
    /\ Answered(a)
    /\ UNCHANGED <<ipc, config_file, possible_option_ranks, chosen, current_config, writes,
                   configAsLoaded>>
    /\ UnchangedByImport

\* lines 591-593
OverwriteNo ==
    /\ ipc = "overwrite"
    /\ Answered("n")
    /\ ipc' = "returned"
    /\ UNCHANGED <<config_file, possible_option_ranks, chosen, current_config, writes,
                   configAsLoaded>>
    /\ UnchangedByImport

\* lines 594-601
OverwriteYes ==
    /\ ipc = "overwrite"
    /\ Answered("y")
    /\ Save(current_config[1])
    /\ UNCHANGED <<possible_option_ranks, chosen, configAsLoaded>>
    /\ UnchangedByImport

NextImport ==
    \/ CatalogUnreachable
    \/ CatalogFails
    \/ NoOptionFound
    \/ RankOptions
    \/ ShowAgain
    \/ \E a \in Answers : NotAnInteger(a)
    \/ \E a \in Answers : NotInList(a)
    \/ \E a \in Answers : OptionChosen(a)
    \/ \E a \in Answers : ConfirmOther(a)
    \/ ConfirmNo
    \/ ConfirmYesSave
    \/ ConfirmYesAsk
    \/ \E a \in Answers : OverwriteOther(a)
    \/ OverwriteNo
    \/ OverwriteYes

\* The import-symbol command on its own.
SpecImport == InitImport /\ [][NextImport]_vars

\* ------------------------------------------------------------- properties
Selected == {key_data_point_indexes[j] : j \in 1 .. Len(key_data_point_indexes)}

Sent == 1 .. Len(requests)

RequestsFor(provider, key) ==
    {j \in Sent : requests[j].provider = provider /\ requests[j].key = key}

\* request j is the retry of the request before it
IsRetry(j) ==
    /\ j > 1
    /\ requests[j - 1].provider = requests[j].provider
    /\ requests[j - 1].key = requests[j].key
    /\ requests[j - 1].status = HTTP_TOO_MANY_REQUESTS

\* the lookups of a key: its requests, retries aside
Lookups(provider, key) == {j \in RequestsFor(provider, key) : ~IsRetry(j)}

\* the price the run has for a key: the cached one, else the usd of the
\* 200 response to its CoinGecko request, else None
KnownPrice(key) ==
    IF key \in DOMAIN cacheAtStart THEN cacheAtStart[key]
    ELSE IF \E j \in RequestsFor("coingecko", key) : requests[j].status = 200
         THEN requests[CHOOSE j \in RequestsFor("coingecko", key) :
                           requests[j].status = 200].body
         ELSE None

\* the simplified row of the selected row i
SimplifiedOf(i) ==
    simplified_rows[CHOOSE j \in 1 .. Len(key_data_point_indexes) :
                        key_data_point_indexes[j] = i]

C2_TwoRejectionsAbortAfterFlush ==
    \A j \in Sent :
        ( /\ j > 1
          /\ requests[j].provider = "coingecko"
          /\ requests[j].status = HTTP_TOO_MANY_REQUESTS
          /\ IsRetry(j) )
        => /\ j = Len(requests)
           /\ pc = "CaughtError"
           /\ Cardinality(RequestsFor("coingecko", requests[j].key)) = 2
           /\ cacheFile = <<coingecko_cache>>
           /\ \A i \in 1 .. j - 1 :
                 (requests[i].provider = "coingecko" /\ requests[i].status = 200)
                 => /\ requests[i].key \in DOMAIN coingecko_cache
                    /\ coingecko_cache[requests[i].key] = requests[i].body

C2_Witness ==
    /\ pc = "CaughtError"
    /\ Len(requests) = 3
    /\ requests[1].status = 200
    /\ requests[2].status = HTTP_TOO_MANY_REQUESTS
    /\ requests[3].status = HTTP_TOO_MANY_REQUESTS
    /\ requests[2].key = requests[3].key

InNoRegistry(symbol) ==
    /\ symbol \notin DOMAIN coingecko_symbols_to_id_configs
    /\ symbol \notin DOMAIN coinhall_symbols_to_id_configs

\* C3: when process_rows returns, a selected row whose symbol is in neither
\* registry and whose key was not in the cache has usdValue 0, is in the
\* uncovered set and carries the uncovered comment in its simplified row.
C3_UnmappedRowIsZeroAndUncovered ==
    pc = "returned" =>
        \A i \in Selected :
            ( /\ InNoRegistry(ledger[i][symbolColumn])
              /\ PriceKey(ledger[i]) \notin DOMAIN cacheAtStart )
            => /\ "usdValue" \in DOMAIN rows[i]
               /\ rows[i].usdValue = 0
               /\ i \in missing_coinhall_coverage
               /\ SimplifiedOf(i).comment = "Not covered, fixme"

C3_Witness ==
    /\ pc = "returned"
    /\ \E i \in Selected :
          /\ InNoRegistry(ledger[i][symbolColumn])
          /\ rows[i].usdValue = 0
          /\ i \in missing_coinhall_coverage

\* C4 as stated: once Coinhall has answered the request of a row with 200
\* and a candle, the run does not crash, and when it returns the row's
\* usdValue is the candle's high times the row's quantity, comment empty.
C4_CoinhallCandleValuesRow ==
    \A j \in Sent :
        ( /\ requests[j].provider = "coinhall"
          /\ requests[j].status = 200
          /\ requests[j].body # <<>> )
        => /\ pc # "AttributeError"
           /\ pc = "returned" =>
                 /\ rows[requests[j].index].usdValue
                       = requests[j].body[1].high * ledger[requests[j].index][valueColumn]
                 /\ SimplifiedOf(requests[j].index).comment = ""

\* C5: when process_rows returns, every selected row has a usdValue: the
\* price of its key times the quantity of the row, with an empty comment,
\* when the key has a price; 0 with the uncovered comment when it has
\* none; the comment is non-empty exactly for the rows of the uncovered set.
C5_EveryRowValued ==
    pc = "returned" =>
        \A i \in Selected :
            LET row   == rows[i]
                price == KnownPrice(PriceKey(ledger[i]))
                s     == SimplifiedOf(i)
            IN /\ "usdValue" \in DOMAIN row
               /\ s.usdValue = row.usdValue
               /\ IF price # None
                  THEN /\ row.usdValue = price[1] * ledger[i][valueColumn]
                       /\ s.comment = ""
                  ELSE IF i \in DOMAIN index_to_costs
                  THEN /\ row.usdValue = index_to_costs[i].high * ledger[i][valueColumn]
                       /\ s.comment = ""
                  ELSE /\ row.usdValue = 0
                       /\ s.comment = "Not covered, fixme"
               /\ s.comment # "" <=> i \in missing_coinhall_coverage

C5_Witness ==
    /\ pc = "returned"
    /\ \E i, k \in Selected :
          /\ KnownPrice(PriceKey(ledger[i])) # None
          /\ rows[i].usdValue > 1
          /\ k \in missing_coinhall_coverage
          /\ rows[k].usdValue = 0

\* C6: a run that returns after a run that returned, on the same ledger and
\* registries, leaves the cache file as the first run left it and gives
\* every row the usdValue and the comment of the first run.
C6_SecondRunIsIdentical ==
    (pc = "returned" /\ previous # <<>>) => Outcome = previous[1]

C6_Witness ==
    /\ pc = "returned"
    /\ previous # <<>>
    /\ requests = <<>>
    /\ \E i, k \in Selected :
          /\ rows[i].usdValue > 0
          /\ k \in missing_coinhall_coverage

\* C7: a CoinGecko request is never issued for a key that the cache file
\* holds, whether with a price or with null: once written, a key is not
\* queried again from CoinGecko, in this run or in a later one.
C7_WrittenKeyNeverRequeried ==
    [][ \A j \in Len(requests) + 1 .. Len(requests') :
            (requests'[j].provider = "coingecko" /\ cacheFile # <<>>)
            => requests'[j].key \notin DOMAIN cacheFile[1] ]_vars

C7_Witness ==
    /\ run > 1
    /\ pc = "returned"
    /\ \E i \in Selected :
          /\ PriceKey(ledger[i]) \in DOMAIN cacheFile[1]
          /\ cacheFile[1][PriceKey(ledger[i])] = None
          /\ RequestsFor("coingecko", PriceKey(ledger[i])) = {}

\* C8: in one run every key is looked up at most once at each provider,
\* retries aside, however many selected rows share the key.
C8_OneLookupPerKey ==
    \A j \in Sent :
        Cardinality(Lookups(requests[j].provider, requests[j].key)) <= 1

C8_Witness ==
    /\ pc = "returned"
    /\ \E i, k \in Selected :
          /\ i # k
          /\ PriceKey(ledger[i]) = PriceKey(ledger[k])
          /\ Lookups("coingecko", PriceKey(ledger[i])) # {}

\* C9 as stated: the selected indexes are exactly those of the rows whose
\* classification is staked or airdrop, whose date is in the target year
\* and whose cell in the configured symbol column is non-empty.
C9_SelectsByConfiguredSymbolColumn ==
    pc = "selected" =>
        key_data_point_indexes =
            SelectSeq([i \in 1 .. Len(ledger) |-> i],
                      LAMBDA i : /\ ledger[i]["classification"] \in KEY_CLASSIFICATIONS
                                 /\ ledger[i][date_column].year = YearFilter
                                 /\ ledger[i][symbolColumn] # "")

\* C10: a CoinGecko request that fails with a status other than 429 is the
\* last request of the run: it is not retried, the cache file holds the
\* in-memory cache and the run ends with CaughtError.
C10_OtherFailureAbortsWithoutRetry ==
    \A j \in Sent :
        (requests[j].provider = "coingecko" /\ requests[j].status \notin {200, HTTP_TOO_MANY_REQUESTS})
        => /\ j = Len(requests)
           /\ pc = "CaughtError"
           /\ cacheFile = <<coingecko_cache>>
           /\ ~IsRetry(j) => Cardinality(RequestsFor("coingecko", requests[j].key)) = 1

C10_Witness ==
    /\ pc = "CaughtError"
    /\ Len(requests) = 2
    /\ requests[1].status = 200
    /\ requests[2].status = 500
    /\ requests[2].key # requests[1].key

\* the sleeps made when exactly j requests had been sent
SleepsAfter(j) == {k \in 1 .. Len(sleeps) : sleeps[k].after = j}

Successful(j) == requests[j].provider = "coingecko" /\ requests[j].status = 200

\* C11: wherever a CoinGecko request can be issued, and wherever the run
\* has aborted (in the CoinGecko or in the Coinhall stage), the cache file
\* equals the in-memory cache and holds the usd of every CoinGecko request
\* of the run that was answered 200.
C11_CheckpointBeforeRequestAndAbort ==
    pc \in {"coingecko", "CaughtError", "SystemExit", "AttributeError"} =>
        /\ cacheFile = <<coingecko_cache>>
        /\ \A j \in Sent :
              Successful(j) =>
                 /\ requests[j].key \in DOMAIN coingecko_cache
                 /\ coingecko_cache[requests[j].key] = requests[j].body

C11_Witness ==
    /\ pc = "SystemExit"
    /\ \E j \in Sent : Successful(j) /\ requests[j].body = None
    /\ cacheFile # <<cacheAtStart>>

\* C12: when process_rows returns, the simplified rows are the selected
\* rows one for one, in ledger order, and none of them is a row whose
\* classification is outside the allow-list (a trade row).
C12_SimplifiedRowsAreSelectedRows ==
    pc = "returned" =>
        /\ Len(simplified_rows) = Len(key_data_point_indexes)
        /\ \A j \in 1 .. Len(simplified_rows) :
              LET i == key_data_point_indexes[j] IN
              /\ simplified_rows[j][date_column] = ledger[i][date_column]
              /\ simplified_rows[j][symbolColumn] = ledger[i][symbolColumn]
              /\ simplified_rows[j][valueColumn] = ledger[i][valueColumn]
              /\ ledger[i]["classification"] \in KEY_CLASSIFICATIONS
              /\ \A k \in 1 .. j - 1 : key_data_point_indexes[k] < i
        /\ \A i \in 1 .. Len(ledger) :
              ledger[i]["classification"] \notin KEY_CLASSIFICATIONS =>
                 \A j \in 1 .. Len(simplified_rows) :
                    simplified_rows[j][date_column] # ledger[i][date_column]

C12_Witness ==
    /\ pc = "returned"
    /\ Len(simplified_rows) = 1
    /\ ledger[1]["classification"] = "trade"
    /\ simplified_rows[1][date_column].hour = 2

\* C17: a CoinGecko request answered 429 is followed by one sleep of
\* COIN_GECKO_THROTTLE_TIME and by one retry of the same key; when the
\* retry is answered 200 its usd is the cost and the cached value of the
\* key and the run goes on; no key is requested more than twice.
C17_OneRetryAfterLongSleep ==
    \A j \in Sent :
        /\ Cardinality(RequestsFor("coingecko", requests[j].key)) <= 2
        /\ ( /\ requests[j].provider = "coingecko"
             /\ requests[j].status = HTTP_TOO_MANY_REQUESTS
             /\ ~IsRetry(j) )
           => /\ j + 1 \in Sent
              /\ IsRetry(j + 1)
              /\ Cardinality(RequestsFor("coingecko", requests[j].key)) = 2
              /\ Cardinality(SleepsAfter(j)) = 1
              /\ \A k \in SleepsAfter(j) : sleeps[k].seconds = COIN_GECKO_THROTTLE_TIME
              /\ requests[j + 1].status = 200 =>
                    /\ requests[j].key \in DOMAIN coingecko_cache
                    /\ coingecko_cache[requests[j].key] = requests[j + 1].body
                    /\ symbols_to_dates_to_costs[requests[j].key] = requests[j + 1].body
                    /\ j + 1 = Len(requests) => pc \notin Ended \ {"returned"}

C17_Witness ==
    /\ pc = "returned"
    /\ Len(requests) = 3
    /\ requests[1].status = HTTP_TOO_MANY_REQUESTS
    /\ requests[2].status = 200
    /\ requests[2].body # None
    /\ requests[3].key # requests[2].key

\* C18 as stated: once Coinhall has answered the request of a row with 200
\* and no candle, the run does not crash, and when it returns the row has
\* usdValue 0, is uncovered and carries the uncovered comment.
C18_EmptyCandlesLeaveRowUncovered ==
    \A j \in Sent :
        ( /\ requests[j].provider = "coinhall"
          /\ requests[j].status = 200
          /\ requests[j].body = <<>> )
        => /\ pc # "AttributeError"
           /\ pc = "returned" =>
                 /\ rows[requests[j].index].usdValue = 0
                 /\ requests[j].index \in missing_coinhall_coverage
                 /\ SimplifiedOf(requests[j].index).comment = "Not covered, fixme"

\* the CoinGecko requests answered 200 up to request j with no long sleep
\* between them and request j
ConsecutiveCalls(j) ==
    {i \in 1 .. j :
        /\ Successful(i)
        /\ ~\E k \in 1 .. Len(sleeps) :
               /\ sleeps[k].seconds = COIN_GECKO_THROTTLE_TIME
               /\ i <= sleeps[k].after
               /\ sleeps[k].after < j}

\* C19: every CoinGecko request answered 200 is followed by one sleep
\* before anything else is requested; there are never more than
\* COIN_GECKO_REQUEST_CHUNKS such calls without a long sleep between them,
\* and after the COIN_GECKO_REQUEST_CHUNKS-th the sleep is
\* COIN_GECKO_THROTTLE_TIME and the counter is back at zero.
C19_ThrottleAfterEveryChunk ==
    \A j \in Sent :
        Successful(j) =>
           /\ Cardinality(SleepsAfter(j)) = 1
           /\ Cardinality(ConsecutiveCalls(j)) <= COIN_GECKO_REQUEST_CHUNKS
           /\ Cardinality(ConsecutiveCalls(j)) = COIN_GECKO_REQUEST_CHUNKS =>
                 /\ \A k \in SleepsAfter(j) : sleeps[k].seconds = COIN_GECKO_THROTTLE_TIME
                 /\ j = Len(requests) => coingecko_requests_made = 0

C19_Witness ==
    /\ Len(requests) = COIN_GECKO_REQUEST_CHUNKS + 1
    /\ \A j \in Sent : Successful(j)
    /\ Cardinality(ConsecutiveCalls(COIN_GECKO_REQUEST_CHUNKS)) = COIN_GECKO_REQUEST_CHUNKS
    /\ coingecko_requests_made = 1

\* C20: no Coinhall request is sent before a CoinGecko request of the same
\* run, and a Coinhall request is sent only for a key without a price: its
\* symbol has no CoinGecko id, or its cached or fetched price is null.
C20_CoinhallOnlyAfterCoinGeckoForUnpricedKeys ==
    /\ \A i, j \in Sent :
          (i < j /\ requests[i].provider = "coinhall")
          => requests[j].provider = "coinhall"
    /\ \A j \in Sent :
          requests[j].provider = "coinhall" =>
             /\ KnownPrice(requests[j].key) = None
             /\ \/ requests[j].key[1] \notin DOMAIN coingecko_symbols_to_id_configs
                \/ requests[j].key \in DOMAIN coingecko_cache

C20_Witness ==
    /\ Len(requests) = 3
    /\ requests[1].provider = "coingecko"
    /\ requests[1].body # None
    /\ requests[2].provider = "coingecko"
    /\ requests[2].body = None
    /\ requests[3].provider = "coinhall"
    /\ requests[3].key = requests[2].key

\* ---- edit distance, stated without the matrix
\* The strings one edit away from s: one character deleted, one character
\* replaced, or one character inserted (never beyond cap characters).
Edits(s, cap) ==
    {SubSeq(s, 1, i - 1) \o SubSeq(s, i + 1, Len(s)) : i \in 1 .. Len(s)}
    \cup {[s EXCEPT ![i] = c] : i \in 1 .. Len(s), c \in Alphabet}
    \cup IF Len(s) < cap
          THEN {SubSeq(s, 1, i) \o <<c>> \o SubSeq(s, i + 1, Len(s)) :
                    i \in 0 .. Len(s), c \in Alphabet}
          ELSE {}

\* The strings at most k edits away from s.
RECURSIVE Within(_, _, _)
Within(k, s, cap) ==
    IF k = 0 THEN {s}
    ELSE LET W == Within(k - 1, s, cap) IN W \cup UNION {Edits(t, cap) : t \in W}

Longest(a, b) == IF Len(a) < Len(b) THEN Len(b) ELSE Len(a)

\* The least number of edits that turn a into b.  A shortest sequence of
\* edits never needs a string longer than the longer of a and b.
EditDistance(a, b) ==
    Min({k \in 0 .. Len(a) + Len(b) : b \in Within(k, a, Longest(a, b))})

\* C15: what levenshtein_dist_dp returns is the minimum number of
\* single-character insertions, deletions and substitutions that turn source
\* into target; in particular it is 0 for equal strings and the length of
\* target when source is empty.
C15_LevenshteinIsEditDistance ==
    levDist # None =>
        /\ levDist[1] = EditDistance(levSource, levTarget)
        /\ (levSource = levTarget => levDist[1] = 0)
        /\ (levSource = <<>> => levDist[1] = Len(levTarget))

\* C15 witness: a call on two different non-empty strings of the same
\* length that needs more than one substitution has returned.
C15_Witness ==
    /\ levDist # None
    /\ Len(levSource) = Len(levTarget)
    /\ Len(levSource) >= 2
    /\ levDist[1] >= 2
    /\ levDist[1] = EditDistance(levSource, levTarget)

\* C16: what levenshtein_dist_dp returns for (source, target) is what it
\* returns for (target, source).
C16_LevenshteinIsSymmetric ==
    levDist # None => levDist[1] = levenshtein_dist_dp(levTarget, levSource)

\* C16 witness: a call on a non-empty source and a longer target which are
\* not a prefix or suffix of one another has returned the same number as
\* the call with the arguments exchanged.
C16_Witness ==
    /\ levDist # None
    /\ levSource # <<>>
    /\ Len(levSource) < Len(levTarget)
    /\ levDist[1] > Len(levTarget) - Len(levSource)
    /\ levDist[1] = levenshtein_dist_dp(levTarget, levSource)

\* ---- the import assistant
\* the members of a registry text under every key but k
WithoutKey(file, k) == SelectSeq(file, LAMBDA member : member[1] # k)

RegistryWritten == writes > 0
HadEntry == configAsLoaded # None /\ HasKey(configAsLoaded[1], importSymbol)

\* C13: when the registry as loaded holds an entry for the input symbol, the
\* file is written only after the overwrite prompt was answered y; after
\* the answer n the assistant has returned and the file is what it was;
\* whenever the file is written, its members under the other keys are those
\* of the registry as loaded, in the same order, and the entry under the
\* input symbol is the chosen record.
C13_OverwriteOnlyAfterYes ==
    /\ (RegistryWritten /\ HadEntry) => (prompt = "overwrite" /\ answer = "y")
    /\ (prompt = "overwrite" /\ answer = "n") =>
           (ipc = "returned" /\ ~RegistryWritten /\ config_file = configFileAtStart)
    /\ RegistryWritten =>
           /\ configAsLoaded # None
           /\ writes = 1
           /\ WithoutKey(config_file, importSymbol)
                  = WithoutKey(save_config_file(configAsLoaded[1]), importSymbol)
           /\ HasKey(load_config_file(config_file), importSymbol)
           /\ load_config_file(config_file).at[importSymbol] = chosen[1]

\* C13 witness: a registry with an entry for the symbol and one for another
\* key has been overwritten after the answer y.
C13_Witness ==
    /\ ipc = "returned"
    /\ RegistryWritten
    /\ HadEntry
    /\ prompt = "overwrite"
    /\ answer = "y"
    /\ Len(config_file) >= 2
    /\ config_file # configFileAtStart

CatalogFetchFailed == coins_list = None \/ coins_list[1].status # 200
NoCatalogEntryMatches ==
    /\ coins_list # None
    /\ coins_list[1].status = 200
    /\ \A i \in 1 .. Len(coins_list[1].data) : ~Matches(importSymbol, coins_list[1].data[i])

\* C14: once the catalog request is over, a failed fetch has ended the
\* assistant with an error and a catalog without a matching entry has made
\* it return without a prompt; in both cases save_config_file was not
\* called and the registry file is what it was.
C14_NoCandidateNoWrite ==
    /\ (ipc # "start" /\ CatalogFetchFailed) =>
           /\ ipc \in {"CaughtError", "ConnectionError"}
           /\ ~RegistryWritten
           /\ config_file = configFileAtStart
    /\ (ipc # "start" /\ NoCatalogEntryMatches) =>
           /\ ipc = "returned"
           /\ prompt = "none"
           /\ chosen = None
           /\ ~RegistryWritten
           /\ config_file = configFileAtStart

\* C14 witness: the assistant has returned on a catalog of two entries none
\* of which matches the symbol, the registry holding an entry already.
C14_Witness ==
    /\ ipc = "returned"
    /\ NoCatalogEntryMatches
    /\ Len(coins_list[1].data) >= 2
    /\ importSymbol = <<"A", "B">>
    /\ config_file # <<>>

\* ---- the cache over time
\* every entry of the cache `old` is in the cache `new`, with its value
Extends(new, old) == \A k \in DOMAIN old : k \in DOMAIN new /\ new[k] = old[k]

\* C21: no step removes an entry of the cache or changes the value under a
\* key the cache holds: every step leaves the cache file holding what it
\* held (a later invocation included), and every step of an invocation
\* leaves the in-memory cache holding what it held.
C21_CacheOnlyGrows ==
    [][ /\ cacheFile # <<>> => (cacheFile' # <<>> /\ Extends(cacheFile'[1], cacheFile[1]))
        /\ run' = run => Extends(coingecko_cache', coingecko_cache) ]_vars

\* C21 witness: a second invocation that started from a cache holding a key
\* has added another key to the file and kept the first.
C21_Witness ==
    /\ run > 1
    /\ pc \in Ended
    /\ cacheFile # <<>>
    /\ DOMAIN cacheAtStart # {}
    /\ DOMAIN cacheFile[1] # DOMAIN cacheAtStart
    /\ Extends(cacheFile[1], cacheAtStart)

\* ---- symbols without a CoinGecko id
NoCoinGeckoId(symbol) == symbol \notin DOMAIN coingecko_symbols_to_id_configs
AfterCoinGecko == pc \in {"coinhall", "returned", "SystemExit", "AttributeError"}

\* C22: no CoinGecko request is sent for a key whose symbol has no entry in
\* the CoinGecko registry; once the CoinGecko stage is over, the cost of
\* every such selected row's key is None and the row is among those handed
\* to the Coinhall stage.
C22_NoRequestForUnmappedSymbol ==
    /\ \A j \in Sent :
          requests[j].provider = "coingecko" => ~NoCoinGeckoId(requests[j].key[1])
    /\ AfterCoinGecko =>
          \A i \in Selected :
              NoCoinGeckoId(rows[i][symbolColumn]) =>
                  /\ PriceKey(rows[i]) \in DOMAIN symbols_to_dates_to_costs
                  /\ symbols_to_dates_to_costs[PriceKey(rows[i])] = None
                  /\ Contains(missing_coingecko_coverage, i)

\* C22 witness: an invocation has returned in which one selected row's
\* symbol has no CoinGecko id and was handed on, and another selected row's
\* key was requested from CoinGecko.
C22_Witness ==
    /\ pc = "returned"
    /\ \E i, k \in Selected :
          /\ NoCoinGeckoId(rows[i][symbolColumn])
          /\ Contains(missing_coingecko_coverage, i)
          /\ RequestsFor("coingecko", PriceKey(rows[i])) = {}
          /\ RequestsFor("coingecko", PriceKey(rows[k])) # {}

\* ---- the candidates of the import assistant
\* the catalog entries that pass the filter of line 517
FilteredCandidates ==
    IF coins_list = None THEN {}
    ELSE {coins_list[1].data[i] : i \in
             {j \in 1 .. Len(coins_list[1].data) : Matches(importSymbol, coins_list[1].data[j])}}

OutOfList(a) ==
    /\ ParseInt(a) # None
    /\ ParseInt(a)[1] \notin 1 .. Len(possible_option_ranks)

AddedTo(cache) == DOMAIN cache \ DOMAIN cacheAtStart

\* the entry of `cache` under k is the usd of a 200 response of CoinGecko
\* to a request for k
FromCoinGecko(cache, k) ==
    \E j \in Sent : /\ Successful(j)
                    /\ requests[j].key = k
                    /\ requests[j].body = cache[k]

\* C24: every entry an invocation that read the cache has added to it, in
\* memory or in the file, is the usd of a 200 response of CoinGecko to a request for
\* that key; so no key of a symbol without CoinGecko id, no key whose
\* request failed and no Coinhall price is in what it added.
C24_CacheEntriesFromCoinGecko ==
    pc \notin {"start", "Exiting"} =>
        /\ \A k \in AddedTo(coingecko_cache) : FromCoinGecko(coingecko_cache, k)
        /\ cacheFile # <<>>
        /\ \A k \in AddedTo(cacheFile[1]) : FromCoinGecko(cacheFile[1], k)
        /\ \A j \in Sent :
              (/\ requests[j].provider = "coingecko"
               /\ ~Successful(j)
               /\ requests[j].key \in AddedTo(cacheFile[1])) =>
                  (j < Len(requests) /\ IsRetry(j + 1) /\ Successful(j + 1))

\* C24 witness: an invocation has aborted after one lookup succeeded and
\* another failed; the file holds the key of the first and not the key of
\* the second.
C24_Witness ==
    /\ pc = "CaughtError"
    /\ cacheFile # <<>>
    /\ \E j \in Sent : Successful(j) /\ requests[j].key \in AddedTo(cacheFile[1])
    /\ requests[Len(requests)].key \notin DOMAIN cacheFile[1]

\* ---- the quota of CoinGecko requests
\* the CoinGecko requests up to request j, whatever their answer, with no
\* long sleep between them and request j
RequestsInWindow(j) ==
    {i \in 1 .. j :
        /\ requests[i].provider = "coingecko"
        /\ ~\E k \in 1 .. Len(sleeps) :
               /\ sleeps[k].seconds = COIN_GECKO_THROTTLE_TIME
               /\ i <= sleeps[k].after
               /\ sleeps[k].after < j}

\* C25: at every CoinGecko request of an invocation, the CoinGecko requests
\* sent since the last sleep of COIN_GECKO_THROTTLE_TIME seconds (or since the
\* start of the invocation), this one included and whatever their answers,
\* are at most COIN_GECKO_REQUEST_CHUNKS.
C25_RequestsBetweenLongSleeps ==
    \A j \in Sent :
        requests[j].provider = "coingecko" =>
            Cardinality(RequestsInWindow(j)) <= COIN_GECKO_REQUEST_CHUNKS

\* C25 witness: the COIN_GECKO_REQUEST_CHUNKS-th request since the start was
\* answered 429 and its retry 200 (the counter then stands at 2), and a
\* lookup after it has completed.
C25_Witness ==
    \E j \in Sent :
        /\ j + 2 <= Len(requests)
        /\ requests[j].status = HTTP_TOO_MANY_REQUESTS
        /\ Cardinality(RequestsInWindow(j)) = COIN_GECKO_REQUEST_CHUNKS
        /\ IsRetry(j + 1)
        /\ Successful(j + 1)
        /\ Cardinality(RequestsInWindow(j + 1)) = 1
        /\ Successful(j + 2)
        /\ Cardinality(RequestsInWindow(j + 2)) = 2

\* ---- a fatal failure in the CoinGecko stage
\* request j is a CoinGecko request whose failure is fatal: a status other
\* than 429, or the failed retry after a 429
FatalCoinGecko(j) ==
    /\ requests[j].provider = "coingecko"
    /\ requests[j].status # 200
    /\ requests[j].status # HTTP_TOO_MANY_REQUESTS \/ IsRetry(j)

NoUsdValue == \A i \in 1 .. Len(rows) : "usdValue" \notin DOMAIN rows[i]

\* C26: once a CoinGecko request has failed fatally, the invocation has
\* ended with CaughtError at that request; no row has a usdValue (the rows
\* are the parsed ledger), there are no simplified rows, output_rows has
\* not been called and the two output files are what they were; the cache
\* file has been written from the in-memory cache.
C26_FatalAbortWritesOnlyCache ==
    \A j \in Sent :
        FatalCoinGecko(j) =>
            /\ pc = "CaughtError"
            /\ j = Len(requests)
            /\ NoUsdValue
            /\ rows = ledger
            /\ simplified_rows = <<>>
            /\ outputs = 0
            /\ cacheFile = <<coingecko_cache>>

\* C26 witness: an invocation has aborted at its second lookup, the first
\* having fetched a price that is in the cache file; no file but the cache
\* file exists.
C26_Witness ==
    /\ pc = "CaughtError"
    /\ FatalCoinGecko(Len(requests))
    /\ Successful(1)
    /\ requests[1].body # None
    /\ cacheFile # <<>>
    /\ requests[1].key \in DOMAIN cacheFile[1]
    /\ outputFile = None
    /\ simplifiedFile = None

\* ---- what process_rows does to the rows
\* row `new` is row `old` with nothing changed but a usdValue added
OnlyUsdValueAdded(new, old) ==
    /\ DOMAIN old \subseteq DOMAIN new
    /\ DOMAIN new \subseteq DOMAIN old \cup {"usdValue"}
    /\ \A header \in DOMAIN old : new[header] = old[header]

\* C27: from the moment the rows are parsed, in every state of an
\* invocation, there are as many rows as ledger rows, in the same order; a
\* row that is not selected is the ledger row as parsed, without usdValue;
\* a selected row is the ledger row with at most a usdValue added.
C27_OnlyUsdValueOnSelectedRows ==
    pc \notin {"start", "Exiting"} =>
        /\ Len(rows) = Len(ledger)
        /\ \A i \in 1 .. Len(rows) :
              /\ OnlyUsdValueAdded(rows[i], ledger[i])
              /\ i \notin Selected => rows[i] = ledger[i]

\* C27 witness: process_rows has returned, one row is not selected and is
\* as parsed, another is selected and has a usdValue above zero.
C27_Witness ==
    /\ pc = "returned"
    /\ \E i, k \in 1 .. Len(rows) :
          /\ i \notin Selected
          /\ rows[i] = ledger[i]
          /\ k \in Selected
          /\ rows[k] # ledger[k]
          /\ rows[k].usdValue > 0
          /\ OnlyUsdValueAdded(rows[k], ledger[k])

\* ---- termination
\* C28: every invocation that has called process_rows ends, by returning or
\* by an abort, and at no time has it sent a provider more than two
\* requests (a request and its one retry) per ledger row.
C28_EveryInvocationEnds ==
    /\ \A r \in 1 .. MaxRuns :
          (run = r /\ pc = "selected") ~> (run = r /\ pc \in Ended)
    /\ [](\A provider \in {"coingecko", "coinhall"} :
             Cardinality({j \in Sent : requests[j].provider = provider})
                <= 2 * Len(ledger))

\* C28 witness: an invocation has returned after two lookups, one of them
\* retried.
C28_Witness ==
    /\ pc = "returned"
    /\ Len(requests) = 3
    /\ \E j \in Sent : IsRetry(j) /\ Successful(j)

====
